---- MODULE Spec2Model ----
(***************************************************************************)
(* Model of tracking/hyperplane.py: class HyperplaneTracker.               *)
(*                                                                         *)
(* The tracker's attributes are the state.  Every public call (initialize, *)
(* update) is one action that covers the whole method body, including the  *)
(* case where an exception leaves the method half way: the attributes then *)
(* keep whatever was assigned before the raising statement.                *)
(* config.DEBUG is off: no plotting, no recorded trajectories.             *)
(*                                                                         *)
(* Numbers.  Homography entries, point coordinates and pixel intensities   *)
(* are floating point in the program.  Here they are residues modulo       *)
(* Modulus, so that matrix product, matrix inverse, projective division    *)
(* and normalisation keep their algebraic definitions on a finite domain.  *)
(* A division is defined exactly when the divisor has a multiplicative     *)
(* inverse; dividing by anything else is a numerical failure that raises   *)
(* in the middle of the call.                                              *)
(***************************************************************************)
EXTENDS Integers, Sequences, FiniteSets, TLC

\* ------------------------------------------------------------------ bounds
\* homography entries, coordinates and intensities are residues modulo Modulus
Modulus == 5
\* largest config.MAX_ITER a tracker is constructed with
MaxIter == 2
\* number of public calls made on one tracker
MaxCalls == 3

\* ------------------------------------------------------------ arithmetic
Ring == 0 .. (Modulus - 1)

\* the multiplicative inverses, 0 where there is none
Inverses ==
  [d \in Ring |-> IF \E e \in Ring : (d * e) % Modulus = 1
                   THEN CHOOSE e \in Ring : (d * e) % Modulus = 1
                   ELSE 0]

IsUnit(d) == Inverses[d] # 0

Inverse(d) == Inverses[d]

RECURSIVE SeqSum(_)
SeqSum(s) == IF s = <<>> THEN 0 ELSE Head(s) + SeqSum(Tail(s))

SeqMin(s) == CHOOSE m \in {s[i] : i \in DOMAIN s} : \A i \in DOMAIN s : m <= s[i]

SeqMax(s) == CHOOSE m \in {s[i] : i \in DOMAIN s} : \A i \in DOMAIN s : m >= s[i]

\* the sequence with every element computed: an array, not a rule to compute one
Array(s) == SubSeq(s, 1, Len(s))

\* A computation that may raise: ok = FALSE stands for the raised exception.
Raise == [ok |-> FALSE, v |-> <<>>]

Return(x) == [ok |-> TRUE, v |-> x]

\* a local name: the value x, computed once, in the rest F of the computation
Let(x, F(_)) == F(x)

\* statement sequencing: the rest F of the computation runs on the value of r,
\* unless r raised, and then the exception leaves the whole computation
Then(r, F(_)) == IF r.ok THEN F(r.v) ELSE Raise

\* ------------------------------------------------- geometry and sampling
\* 3x3 matrices are row-major 9-tuples; At(H, r, c) is the entry of row r, column c.
At(H, r, c) == H[3 * (r - 1) + c]

Identity == <<1, 0, 0, 0, 1, 0, 0, 0, 1>>

\* np.matmul on two 3x3 matrices
matmul(A, B) ==
  Array([k \in 1 .. 9 |->
           LET r == ((k - 1) \div 3) + 1
               c == ((k - 1) % 3) + 1
           IN (At(A, r, 1) * At(B, 1, c) + At(A, r, 2) * At(B, 2, c)
                 + At(A, r, 3) * At(B, 3, c)) % Modulus])

Det(H) ==
  (At(H, 1, 1) * (At(H, 2, 2) * At(H, 3, 3) - At(H, 2, 3) * At(H, 3, 2))
   - At(H, 1, 2) * (At(H, 2, 1) * At(H, 3, 3) - At(H, 2, 3) * At(H, 3, 1))
   + At(H, 1, 3) * (At(H, 2, 1) * At(H, 3, 2) - At(H, 2, 2) * At(H, 3, 1))) % Modulus

Adjugate(H) ==
  << At(H, 2, 2) * At(H, 3, 3) - At(H, 2, 3) * At(H, 3, 2),
     At(H, 1, 3) * At(H, 3, 2) - At(H, 1, 2) * At(H, 3, 3),
     At(H, 1, 2) * At(H, 2, 3) - At(H, 1, 3) * At(H, 2, 2),
     At(H, 2, 3) * At(H, 3, 1) - At(H, 2, 1) * At(H, 3, 3),
     At(H, 1, 1) * At(H, 3, 3) - At(H, 1, 3) * At(H, 3, 1),
     At(H, 1, 3) * At(H, 2, 1) - At(H, 1, 1) * At(H, 2, 3),
     At(H, 2, 1) * At(H, 3, 2) - At(H, 2, 2) * At(H, 3, 1),
     At(H, 1, 2) * At(H, 3, 1) - At(H, 1, 1) * At(H, 3, 2),
     At(H, 1, 1) * At(H, 2, 2) - At(H, 1, 2) * At(H, 2, 1) >>

\* np.linalg.inv: raises LinAlgError on a singular matrix
linalg_inv(H) ==
  Let(Det(H), LAMBDA det :
    IF ~IsUnit(det) THEN Raise
    ELSE Let(Adjugate(H), LAMBDA adj :
           Return(Array([k \in 1 .. 9 |-> (adj[k] * Inverse(det)) % Modulus]))))

\* utils.normalize_hom: divide by the bottom-right entry
normalize_hom(H) ==
  IF ~IsUnit(H[9]) THEN Raise
  ELSE Return(Array([k \in 1 .. 9 |-> (H[k] * Inverse(H[9])) % Modulus]))

\* utils.make_hom: the 8 parameters, with the 9th entry fixed at 1
make_hom(p) == p \o <<1>>

\* utils._SQUARE: the corners of the canonical unit square
SQUARE == << <<0, 0>>, <<1, 0>>, <<1, 1>>, <<0, 1>> >>

\* the homogeneous image of one point
Project(H, pt) ==
  [x |-> (At(H, 1, 1) * pt[1] + At(H, 1, 2) * pt[2] + At(H, 1, 3)) % Modulus,
   y |-> (At(H, 2, 1) * pt[1] + At(H, 2, 2) * pt[2] + At(H, 2, 3)) % Modulus,
   w |-> (At(H, 3, 1) * pt[1] + At(H, 3, 2) * pt[2] + At(H, 3, 3)) % Modulus]

\* np.round(utils.apply_to_pts(H, pts)).astype(int): projective transform,
\* dividing by the homogeneous coordinate.  Coordinates are integers here, so
\* the rounding has nothing left to round.
apply_to_pts(H, pts) ==
  Let(Array([i \in DOMAIN pts |-> Project(H, pts[i])]), LAMBDA q :
    IF \E i \in DOMAIN q : ~IsUnit(q[i].w) THEN Raise
    ELSE Return(Array([i \in DOMAIN q |->
                         << (q[i].x * Inverse(q[i].w)) % Modulus,
                            (q[i].y * Inverse(q[i].w)) % Modulus >>])))

\* utils.square_to_corners_warp: the homography that maps SQUARE onto the four
\* corners, bottom-right entry 1.  Corners with no such homography (repeated
\* or collinear points) give, silently, a degenerate matrix.
square_to_corners_warp(c) ==
  LET dx1 == c[2][1] - c[3][1]
      dx2 == c[4][1] - c[3][1]
      sx  == c[1][1] - c[2][1] + c[3][1] - c[4][1]
      dy1 == c[2][2] - c[3][2]
      dy2 == c[4][2] - c[3][2]
      sy  == c[1][2] - c[2][2] + c[3][2] - c[4][2]
      den == (dx1 * dy2 - dx2 * dy1) % Modulus
  IN IF ~IsUnit(den) THEN <<0, 0, 0, 0, 0, 0, 0, 0, 1>>
     ELSE LET g == ((sx * dy2 - dx2 * sy) * Inverse(den)) % Modulus
              h == ((dx1 * sy - sx * dy1) * Inverse(den)) % Modulus
          IN << (c[2][1] - c[1][1] + g * c[2][1]) % Modulus,
                (c[4][1] - c[1][1] + h * c[4][1]) % Modulus,
                c[1][1],
                (c[2][2] - c[1][2] + g * c[2][2]) % Modulus,
                (c[4][2] - c[1][2] + h * c[4][2]) % Modulus,
                c[1][2],
                g, h, 1 >>

\* A frame is an image, named by a number; NoFrame is an argument that is no
\* image (what a video source hands out past its last frame).
NoFrame == 0

Frames == {1, 2}

\* the intensity of frame f at a pixel
Pixel(f, pt) == (f * pt[1] + pt[2] * pt[2] + f * pt[1] * pt[2]) % Modulus

\* utils.sample_region(frame, corners, region_shape, Np): the sub-sampled patch
\* of the region, here the intensities at its Np = 4 grid points, the corners.
sample_region(f, corners) ==
  IF f = NoFrame THEN Raise
  ELSE Return(Array([i \in DOMAIN corners |-> Pixel(f, corners[i])]))

\* utils.normalize_minmax: min-max normalisation into a fixed range; a patch
\* of one intensity is mapped to the bottom of the range.
normalize_minmax(patch) ==
  Let(SeqMin(patch), LAMBDA lo :
  Let(SeqMax(patch), LAMBDA hi :
    Array([i \in DOMAIN patch |->
             IF hi = lo THEN 0 ELSE ((patch[i] - lo) * (Modulus - 1)) \div (hi - lo)])))

\* config.MOTION_PARAMS: the motion scales (sigma_d, sigma_t), in order
MOTION_PARAMS == << <<0, 1>>, <<1, 0>> >>

\* utils.random_hom(sigma_d, sigma_t): the homographies a draw can give, a
\* translation of at most sigma_t and a projective term of at most sigma_d
RandomHoms(sigma_d, sigma_t) ==
  { <<1, 0, tx, 0, 1, 0, g, 0, 1>> : tx \in 0 .. sigma_t, g \in 0 .. sigma_d }

\* config.NUM_SYNTHESIS of the trackers constructed
SynthesisCounts == {0, 1}

\* what the random generator hands out during one _synthesis: for every motion
\* scale, NUM_SYNTHESIS homographies
DrawsOf ==
  [n \in SynthesisCounts |->
     { d \in [DOMAIN MOTION_PARAMS ->
                [1 .. n -> UNION { RandomHoms(MOTION_PARAMS[s][1], MOTION_PARAMS[s][2]) :
                                     s \in DOMAIN MOTION_PARAMS }]] :
         \A s \in DOMAIN MOTION_PARAMS : \A i \in 1 .. n :
            d[s][i] \in RandomHoms(MOTION_PARAMS[s][1], MOTION_PARAMS[s][2]) }]

\* ------------------------------------------------------------ regression
\* linear_model.Ridge(alpha).fit(X, Y): the fitted model is a function of the
\* training rows, which it keeps; it raises ValueError on an empty training set.
Fit(Xs, Ys) ==
  IF Len(Xs) = 0 THEN Raise ELSE Return([X |-> Xs, Y |-> Ys])

SqDist(a, b) == SeqSum(Array([i \in DOMAIN a |-> (a[i] - b[i]) * (a[i] - b[i])]))

\* learner.predict(deltaI): a fixed function of the fitted model and the input;
\* the target row of the training row closest to the input, the first such row.
Predict(learner, deltaI) ==
  Let(Array([j \in DOMAIN learner.X |-> SqDist(learner.X[j], deltaI)]),
      LAMBDA dist :
        learner.Y[CHOOSE a \in DOMAIN dist :
                    /\ \A b \in DOMAIN dist : dist[a] <= dist[b]
                    /\ \A b \in DOMAIN dist : b < a => dist[b] > dist[a]])

Diff(a, b) == Array([i \in DOMAIN a |-> a[i] - b[i]])

\* ------------------------------------------------------------- the state
VARIABLES
  config,       \* self.config: MAX_ITER and NUM_SYNTHESIS of this tracker
  initialized,  \* self.initialized
  frame,        \* self.frame
  warp,         \* self.warp
  template,     \* self.template
  X,            \* self.X: per motion scale, the feature rows
  Y,            \* self.Y: per motion scale, the target rows
  learners,     \* self.learners
  last,         \* the last public call: its arguments and what it did
  lastUpd,      \* the last update call that ran the loop: what it read, what it gave
  prov,         \* whether warp and template are those of the initialize call that
                \* trained the learners ("trained") or of a later one ("later"),
                \* and whether an initialize call has returned yet
  ncalls        \* public calls made so far

vars == <<config, initialized, frame, warp, template, X, Y, learners,
          last, lastUpd, prov, ncalls>>

\* an attribute that no statement has assigned yet
Unset == <<>>

\* the corners initialize is called with: a quadrilateral, and one point
\* repeated four times
CornerInputs ==
  { << <<2, 0>>, <<3, 0>>, <<0, 3>>, <<0, 2>> >>,
    << <<1, 1>>, <<1, 1>>, <<1, 1>>, <<1, 1>> >> }

Collinear(p, q, r) ==
  ((q[1] - p[1]) * (r[2] - p[2]) - (q[2] - p[2]) * (r[1] - p[1])) % Modulus = 0

\* a degenerate quadrilateral: three of its corners on a line (a repeated point
\* is on every line through the others)
Degenerate(c) ==
  \E i, j, k \in DOMAIN c : i < j /\ j < k /\ Collinear(c[i], c[j], c[k])

NoCall ==
  [op |-> "none", outcome |-> "none", frameArg |-> NoFrame, cornersArg |-> <<>>,
   ret |-> <<>>, started |-> 0, committed |-> 0, trace |-> <<>>,
   synthesized |-> 0, fitted |-> 0]

NoUpdate ==
  [valid |-> FALSE, warp |-> <<>>, template |-> <<>>, learners |-> <<>>,
   frameArg |-> NoFrame, outcome |-> "none", ret |-> <<>>, post |-> <<>>]

\* __init__
Init ==
  /\ config \in [MAX_ITER : 0 .. MaxIter, NUM_SYNTHESIS : SynthesisCounts]
  /\ initialized = FALSE
  /\ frame = Unset
  /\ warp = Unset
  /\ template = Unset
  /\ X = Unset
  /\ Y = Unset
  /\ learners = Unset
  /\ last = NoCall
  /\ lastUpd = NoUpdate
  /\ prov = [warp |-> "none", template |-> "none", completed |-> FALSE]
  /\ ncalls = 0

\* ------------------------------------------------------------ _synthesis
\* lines 82-95, one pass of the inner loop: the patch and the homography of one draw
SynthSample(wrp, f, H) ==
  Then(linalg_inv(H), LAMBDA inv :
  Then(normalize_hom(matmul(wrp, inv)), LAMBDA disturbed_warp :
  Then(apply_to_pts(disturbed_warp, SQUARE), LAMBDA disturbed_corners :
  Then(sample_region(f, disturbed_corners), LAMBDA disturbed_template :
  Return([patch |-> normalize_minmax(disturbed_template), warp |-> H])))))

\* the results of the passes 1, 2, ... of a loop, up to and with the first that
\* raises: Pass(i) is what pass i computes
RECURSIVE Passes(_, _, _, _)
Passes(Pass(_), n, i, acc) ==
  IF i > n THEN acc
  ELSE Let(Pass(i), LAMBDA r :
         IF r.ok THEN Passes(Pass, n, i + 1, Append(acc, r)) ELSE Append(acc, r))

\* how many passes came to their end
Completed(rs) == Cardinality({i \in DOMAIN rs : rs[i].ok})

\* lines 76-100, one pass of the outer loop: X and Y of one motion scale
SynthScale(wrp, tmpl, f, hs) ==
  Let(Passes(LAMBDA i : SynthSample(wrp, f, hs[i]), Len(hs), 1, <<>>),
      LAMBDA rows :
        IF Completed(rows) < Len(hs) THEN Raise
        ELSE Return([X |-> Array([i \in DOMAIN hs |-> Diff(rows[i].v.patch, tmpl)]),
                     Y |-> Array([i \in DOMAIN hs |-> SubSeq(rows[i].v.warp, 1, 8)])]))

\* lines 74-100, the loops of _synthesis: self.X and self.Y hold the motion
\* scales completed before the first exception
Synthesize(wrp, tmpl, f, draws) ==
  Let(Passes(LAMBDA s : SynthScale(wrp, tmpl, f, draws[s]), Len(MOTION_PARAMS), 1, <<>>),
      LAMBDA rs :
        [ok |-> Completed(rs) = Len(MOTION_PARAMS),
         X |-> Array([s \in 1 .. Completed(rs) |-> rs[s].v.X]),
         Y |-> Array([s \in 1 .. Completed(rs) |-> rs[s].v.Y])])

\* _train: self.learners holds the learners fitted before the first exception
Train(Xs, Ys) ==
  Let(Passes(LAMBDA i : Fit(Xs[i], Ys[i]), Len(MOTION_PARAMS), 1, <<>>),
      LAMBDA rs :
        [ok |-> Completed(rs) = Len(MOTION_PARAMS),
         learners |-> Array([i \in 1 .. Completed(rs) |-> rs[i].v])])

\* ------------------------------------------------------------ initialize
\* a variant of line 69 that sets the flag whether or not _synthesis returns
InitializedAtEntry(returned) == TRUE

\* line 69, self.initialized = self._synthesis(): the assignment is reached
\* only when _synthesis returns, and _synthesis returns True
InitializedAfter(returned) == IF returned THEN TRUE ELSE initialized

\* lines 68-69 and 104-107: _synthesis, with _train at its end, from the warp
\* and the template of this call
SynthesisCall(f, w, tmpl, draws) ==
  Let(Synthesize(w, tmpl, f, draws), LAMBDA syn :
    IF ~syn.ok
      THEN [outcome |-> "error", initialized |-> InitializedAfter(FALSE),
            frame |-> f, warp |-> w, template |-> tmpl,
            X |-> syn.X, Y |-> syn.Y, learners |-> learners,
            sampled |-> TRUE, synthesized |-> Len(syn.X), trained |-> FALSE,
            fitted |-> 0]
    ELSE Let(Train(syn.X, syn.Y), LAMBDA tr :
           [outcome |-> IF tr.ok THEN "ok" ELSE "error",
            initialized |-> InitializedAfter(tr.ok),
            frame |-> f, warp |-> w, template |-> tmpl,
            X |-> syn.X, Y |-> syn.Y, learners |-> tr.learners,
            sampled |-> TRUE, synthesized |-> Len(syn.X), trained |-> TRUE,
            fitted |-> Len(tr.learners)]))

\* initialize(frame, corners), with the draws its _synthesis gets: the
\* attributes after the call, and how far the call came
InitializeCall(f, c, draws) ==
  Let(square_to_corners_warp(c), LAMBDA w :
  Let(sample_region(f, c), LAMBDA patch :
    IF ~patch.ok
      THEN [outcome |-> "error", initialized |-> InitializedAfter(FALSE),
            frame |-> f, warp |-> w, template |-> template,
            X |-> X, Y |-> Y, learners |-> learners,
            sampled |-> FALSE, synthesized |-> 0, trained |-> FALSE, fitted |-> 0]
    ELSE SynthesisCall(f, w, normalize_minmax(patch.v), draws)))

\* the random generator is consulted only once _synthesis is reached
DrawsReached(f) == IF sample_region(f, SQUARE).ok THEN DrawsOf[config.NUM_SYNTHESIS]
                   ELSE {<<>>}

initialize ==
  /\ ncalls < MaxCalls
  /\ \E f \in Frames \cup {NoFrame}, c \in CornerInputs :
     \E draws \in DrawsReached(f) :
     \E r \in {InitializeCall(f, c, draws)} :
          /\ initialized' = r.initialized
          /\ frame' = r.frame
          /\ warp' = r.warp
          /\ template' = r.template
          /\ X' = r.X
          /\ Y' = r.Y
          /\ learners' = r.learners
          /\ last' = [op |-> "initialize", outcome |-> r.outcome, frameArg |-> f,
                      cornersArg |-> c, ret |-> <<>>, started |-> 0, committed |-> 0,
                      trace |-> <<>>,
                      synthesized |-> r.synthesized, fitted |-> r.fitted]
          /\ prov' = IF r.outcome = "ok"
                        THEN [warp |-> "trained", template |-> "trained",
                              completed |-> TRUE]
                        ELSE [warp |-> "later",
                              template |-> IF r.sampled THEN "later" ELSE prov.template,
                              completed |-> prov.completed]
  /\ ncalls' = ncalls + 1
  /\ UNCHANGED <<config, lastUpd>>

\* ---------------------------------------------------------------- update
\* lines 143-162: what one learner proposes and how the proposal scores
Candidate(w, tmpl, f, learner, deltaI) ==
  Let(make_hom(Predict(learner, deltaI)), LAMBDA update_warp :
  Then(normalize_hom(matmul(w, update_warp)), LAMBDA candidate_warp :
  Then(apply_to_pts(candidate_warp, SQUARE), LAMBDA candidate_corners :
  Then(sample_region(f, candidate_corners), LAMBDA candidate_patch :
  Return([update_warp |-> update_warp,
          candidate_warp |-> candidate_warp,
          score |-> SqDist(normalize_minmax(candidate_patch), tmpl)])))))

\* a variant of line 165 that takes the last position of the least score
ArgMinLast(scores) ==
  CHOOSE i \in DOMAIN scores :
    /\ \A j \in DOMAIN scores : scores[i] <= scores[j]
    /\ \A j \in DOMAIN scores : j > i => scores[j] # scores[i]

\* line 165, scores.index(min(scores)): the first position of the least score
ArgMin(scores) ==
  CHOOSE i \in DOMAIN scores :
    scores[i] = SeqMin(scores) /\ \A j \in DOMAIN scores : j < i => scores[j] # scores[i]

\* a variant of lines 169-170 without line 170: the product is stored as it is
CommitRaw(w, update_warp) == [ok |-> TRUE, warp |-> matmul(w, update_warp)]

\* lines 169-170: self.warp is assigned the product, then its normalisation;
\* if the normalisation raises, self.warp keeps the product
Commit(w, update_warp) ==
  Let(matmul(w, update_warp), LAMBDA composed :
  Let(normalize_hom(composed), LAMBDA normal :
    IF normal.ok THEN [ok |-> TRUE, warp |-> normal.v]
    ELSE [ok |-> FALSE, warp |-> composed]))

\* a variant of the loop that samples self.frame, the frame of initialize
StoredFrame(frameArg) == frame

\* the frame the loop samples: the argument of update
SampledFrame(frameArg) == frameArg

\* a variant of an aborted pass that resets self.warp on its way out
AbortedToIdentity(w) == [ok |-> FALSE, warp |-> Identity, log |-> <<>>]

\* a pass of the loop that raised before line 169
Aborted(w) == [ok |-> FALSE, warp |-> w, log |-> <<>>]

\* lines 139-170: the greedy search among the learners' proposals and the commit
Greedy(w, tmpl, lrn, f, deltaI) ==
  Let(Passes(LAMBDA i : Candidate(w, tmpl, f, lrn[i], deltaI), Len(lrn), 1, <<>>),
      LAMBDA cands :
        IF Completed(cands) < Len(lrn) \/ Len(lrn) = 0 THEN Aborted(w)
        ELSE Let(Array([i \in DOMAIN lrn |-> cands[i].v.score]), LAMBDA scores :
             Let(ArgMin(scores), LAMBDA idx :
             Let(Commit(w, cands[idx].v.update_warp), LAMBDA done :
               [ok |-> done.ok, warp |-> done.warp,
                log |-> [before |-> w,
                         scores |-> scores,
                         candidates |->
                           Array([i \in DOMAIN lrn |-> cands[i].v.update_warp]),
                         candidate_warps |->
                           Array([i \in DOMAIN lrn |-> cands[i].v.candidate_warp]),
                         idx |-> idx,
                         chosen |-> cands[idx].v.update_warp,
                         after |-> done.warp]]))))

\* lines 128-170, one pass of the loop from self.warp = w: whether it came to
\* its end, self.warp after it, and what it computed
Iteration(w, tmpl, lrn, frameArg) ==
  Let(SampledFrame(frameArg), LAMBDA f :
  Let(apply_to_pts(w, SQUARE), LAMBDA curr_corners :
    IF ~curr_corners.ok THEN Aborted(w)
    ELSE Let(sample_region(f, curr_corners.v), LAMBDA curr_patch :
           IF ~curr_patch.ok THEN Aborted(w)
           ELSE Greedy(w, tmpl, lrn, f, Diff(normalize_minmax(curr_patch.v), tmpl)))))

\* a variant of the loop that stops once a pass has chosen the identity
RECURSIVE LoopUntilStill(_, _, _, _, _, _)
LoopUntilStill(k, w, tmpl, lrn, frameArg, trace) ==
  IF k > config.MAX_ITER \/ (trace # <<>> /\ trace[Len(trace)].chosen = Identity)
    THEN [ok |-> TRUE, warp |-> w, started |-> k - 1, committed |-> k - 1,
          trace |-> trace]
  ELSE Let(Iteration(w, tmpl, lrn, frameArg), LAMBDA it :
         IF it.log = <<>>
           THEN [ok |-> FALSE, warp |-> it.warp, started |-> k, committed |-> k - 1,
                 trace |-> trace]
         ELSE IF ~it.ok
           THEN [ok |-> FALSE, warp |-> it.warp, started |-> k, committed |-> k - 1,
                 trace |-> Append(trace, it.log)]
         ELSE LoopUntilStill(k + 1, it.warp, tmpl, lrn, frameArg, Append(trace, it.log)))

\* lines 127-170: the loop, from pass k on; trace holds the passes that
\* reached line 169
RECURSIVE Loop(_, _, _, _, _, _)
Loop(k, w, tmpl, lrn, frameArg, trace) ==
  IF k > config.MAX_ITER
    THEN [ok |-> TRUE, warp |-> w, started |-> k - 1, committed |-> k - 1,
          trace |-> trace]
  ELSE Let(Iteration(w, tmpl, lrn, frameArg), LAMBDA it :
         IF it.log = <<>>
           THEN [ok |-> FALSE, warp |-> it.warp, started |-> k, committed |-> k - 1,
                 trace |-> trace]
         ELSE IF ~it.ok
           THEN [ok |-> FALSE, warp |-> it.warp, started |-> k, committed |-> k - 1,
                 trace |-> Append(trace, it.log)]
         ELSE Loop(k + 1, it.warp, tmpl, lrn, frameArg, Append(trace, it.log)))

\* line 172: the corners returned after the loop
Returned(run) ==
  Let(apply_to_pts(run.warp, SQUARE), LAMBDA corners :
    [outcome |-> IF run.ok /\ corners.ok THEN "ok" ELSE "error",
     warp |-> run.warp,
     ret |-> IF run.ok /\ corners.ok THEN corners.v ELSE <<>>,
     started |-> run.started, committed |-> run.committed, trace |-> run.trace])

\* lines 127-172: update past its guard, from self.warp = w, self.template =
\* tmpl and self.learners = lrn; an attribute that was never assigned raises
\* AttributeError where it is first read
Track(w, tmpl, lrn, frameArg) ==
  IF config.MAX_ITER > 0 /\ (w = Unset \/ tmpl = Unset \/ lrn = Unset)
    THEN [outcome |-> "error", warp |-> w, ret |-> <<>>, started |-> 1,
          committed |-> 0, trace |-> <<>>]
  ELSE IF w = Unset
    THEN [outcome |-> "error", warp |-> w, ret |-> <<>>, started |-> 0,
          committed |-> 0, trace |-> <<>>]
  ELSE Let(Loop(1, w, tmpl, lrn, frameArg, <<>>), LAMBDA run :
         IF ~run.ok
           THEN [outcome |-> "error", warp |-> run.warp, ret |-> <<>>,
                 started |-> run.started, committed |-> run.committed,
                 trace |-> run.trace]
         ELSE Returned(run))

\* a variant of update without the guard of line 124
GuardAbsent == FALSE

\* line 124: the guard of update
Uninitialized == ~initialized

\* update(frame): the outcome, self.warp after the call, the corners returned
UpdateCall(frameArg) ==
  IF Uninitialized
    THEN [outcome |-> "NotInitialized", warp |-> warp, ret |-> <<>>,
          started |-> 0, committed |-> 0, trace |-> <<>>]
  ELSE Track(warp, template, learners, frameArg)

\* a variant of update that drops the flag when the call fails
AssignedOnLoss(r) ==
  [initialized |-> initialized /\ r.outcome = "ok", frame |-> frame, warp |-> r.warp,
   template |-> template, X |-> X, Y |-> Y, learners |-> learners]

\* the attributes update assigns: self.warp and nothing else
AssignedByUpdate(r) ==
  [initialized |-> initialized, frame |-> frame, warp |-> r.warp,
   template |-> template, X |-> X, Y |-> Y, learners |-> learners]

update ==
  /\ ncalls < MaxCalls
  /\ \E f \in Frames \cup {NoFrame} :
     \E r \in {UpdateCall(f)} :
     \E a \in {AssignedByUpdate(r)} :
          /\ initialized' = a.initialized
          /\ frame' = a.frame
          /\ warp' = a.warp
          /\ template' = a.template
          /\ X' = a.X
          /\ Y' = a.Y
          /\ learners' = a.learners
          /\ last' = [op |-> "update", outcome |-> r.outcome, frameArg |-> f,
                      cornersArg |-> <<>>, ret |-> r.ret, started |-> r.started,
                      committed |-> r.committed, trace |-> r.trace,
                      synthesized |-> 0, fitted |-> 0]
          /\ lastUpd' = IF r.outcome = "NotInitialized" THEN lastUpd
                        ELSE [valid |-> TRUE, warp |-> warp, template |-> template,
                              learners |-> learners, frameArg |-> f,
                              outcome |-> r.outcome, ret |-> r.ret, post |-> r.warp]
  /\ ncalls' = ncalls + 1
  /\ UNCHANGED <<config, prov>>

Next == initialize \/ update

Spec == Init /\ [][Next]_vars

\* ------------------------------------------------------------- properties
\* a step that is a call of update, of initialize
UpdateStep == ncalls' = ncalls + 1 /\ last'.op = "update"

InitializeStep == ncalls' = ncalls + 1 /\ last'.op = "initialize"

\* the tracker's attributes
attributes == <<initialized, frame, warp, template, X, Y, learners>>

\* C1: update on a tracker on which no initialize has returned yet fails with
\* NotInitialized, starts no pass of the loop, returns no corners and leaves
\* every attribute as it was.
C1_UpdateBeforeInitialize ==
  [][(UpdateStep /\ ~prov.completed) =>
        /\ last'.outcome = "NotInitialized"
        /\ last'.started = 0
        /\ last'.trace = <<>>
        /\ last'.ret = <<>>
        /\ UNCHANGED attributes]_vars

\* update was refused on a tracker whose only initialize call failed after it
\* had assigned the warp
C1_Witness ==
  /\ last.op = "update"
  /\ last.outcome = "NotInitialized"
  /\ ~prov.completed
  /\ warp # Unset

\* C2: the flag goes from false to true only in an initialize call in which
\* every motion scale was synthesized with all its samples and every learner
\* was fitted; an initialize call that fails on a tracker not yet initialized
\* leaves the flag false, and the update that follows fails with NotInitialized.
C2_InitializedOnlyAfterTraining ==
  [][/\ (~initialized /\ initialized') =>
          /\ InitializeStep
          /\ last'.outcome = "ok"
          /\ last'.synthesized = Len(MOTION_PARAMS)
          /\ last'.fitted = Len(MOTION_PARAMS)
          /\ Len(learners') = Len(MOTION_PARAMS)
          /\ \A s \in DOMAIN MOTION_PARAMS :
                Len(X'[s]) = config.NUM_SYNTHESIS /\ Len(Y'[s]) = config.NUM_SYNTHESIS
     /\ (InitializeStep /\ ~initialized /\ last'.outcome # "ok") => ~initialized'
     /\ (UpdateStep /\ ~initialized /\ last.op = "initialize" /\ last.outcome # "ok")
          => last'.outcome = "NotInitialized"]_vars

\* an initialize call failed in _synthesis after a motion scale was completed,
\* and the flag is false
C2_Witness ==
  /\ last.op = "initialize"
  /\ last.outcome = "error"
  /\ last.synthesized = 1
  /\ ~initialized

\* C3: in every pass of the loop that came to its commit, the update chosen and
\* committed is the proposal of the learner with the least score, and among
\* equal least scores that of the learner with the least index.
C3_GreedyArgMin ==
  \A k \in DOMAIN last.trace :
    \E i \in DOMAIN last.trace[k].scores :
       /\ \A j \in DOMAIN last.trace[k].scores :
             last.trace[k].scores[i] <= last.trace[k].scores[j]
       /\ \A j \in DOMAIN last.trace[k].scores :
             j < i => last.trace[k].scores[j] > last.trace[k].scores[i]
       /\ last.trace[k].idx = i
       /\ last.trace[k].chosen = last.trace[k].candidates[i]
       /\ last.trace[k].after = last.trace[k].candidate_warps[i]

\* a pass in which two learners scored the same with different proposals
C3_Witness ==
  /\ last.op = "update"
  /\ \E k \in DOMAIN last.trace :
        /\ last.trace[k].scores[1] = last.trace[k].scores[2]
        /\ last.trace[k].candidates[1] # last.trace[k].candidates[2]
        /\ last.trace[k].candidate_warps[1] # last.trace[k].candidate_warps[2]

\* C4: when update fails in the loop, the warp is the normalised warp of the
\* last pass that was committed, the warp before the call if there was none,
\* and the template is as it was.
C4_FailedUpdateKeepsCommittedWarp ==
  [][(UpdateStep /\ initialized /\ last'.outcome = "error") =>
        /\ warp' = IF last'.committed = 0 THEN warp
                   ELSE last'.trace[last'.committed].candidate_warps[
                          last'.trace[last'.committed].idx]
        /\ warp'[9] = 1
        /\ template' = template]_vars

\* an update failed after it had committed a pass that changed the warp
C4_Witness ==
  /\ last.op = "update"
  /\ last.outcome = "error"
  /\ last.committed >= 1
  /\ lastUpd.warp # lastUpd.post

\* C5: initialize called with degenerate corners fails with InvalidGeometry,
\* builds no warp, template or training data and leaves the flag false.
C5_DegenerateCornersRejected ==
  (last.op = "initialize" /\ Degenerate(last.cornersArg)) =>
     /\ last.outcome = "InvalidGeometry"
     /\ last.synthesized = 0
     /\ last.fitted = 0
     /\ ~initialized

\* C6: on an initialized tracker, after initialize and after every update, the
\* bottom-right entry of the warp is 1.
C6_WarpNormalized == initialized => warp[9] = 1

\* an update committed a product whose bottom-right entry was not 1
C6_Witness ==
  /\ last.op = "update"
  /\ last.outcome = "ok"
  /\ \E k \in DOMAIN last.trace :
        matmul(last.trace[k].before, last.trace[k].chosen)[9] # 1

\* C7: an update that returns has run exactly MAX_ITER passes, each from the
\* warp the pass before it committed, and returns the four corners of the
\* warp it leaves; with MAX_ITER = 0 the warp is as it was.
C7_FixedIterationCount ==
  [][(UpdateStep /\ last'.outcome = "ok") =>
        /\ last'.started = config.MAX_ITER
        /\ last'.committed = config.MAX_ITER
        /\ Len(last'.trace) = config.MAX_ITER
        /\ \A k \in DOMAIN last'.trace :
              /\ last'.trace[k].before = IF k = 1 THEN warp ELSE last'.trace[k - 1].after
              /\ k = config.MAX_ITER => warp' = last'.trace[k].after
        /\ config.MAX_ITER = 0 => warp' = warp
        /\ Len(last'.ret) = 4
        /\ Return(last'.ret) = apply_to_pts(warp', SQUARE)]_vars

\* an update returned after two passes or more
C7_Witness ==
  /\ last.op = "update"
  /\ last.outcome = "ok"
  /\ Len(last.trace) >= 2
  /\ Len(last.ret) = 4

\* C8: a call of update leaves the template, the learners and the flag as they
\* were; of the attributes it can change only the warp.
C8_UpdateChangesOnlyWarp ==
  [][UpdateStep => UNCHANGED <<initialized, frame, template, X, Y, learners>>]_vars

\* an update on an initialized tracker changed the warp
C8_Witness ==
  /\ last.op = "update"
  /\ initialized
  /\ prov.template = "trained"
  /\ warp # lastUpd.warp

C10_RegressorsMatchState ==
  initialized =>
     /\ prov.warp = "trained"
     /\ prov.template = "trained"
     /\ Len(learners) = Len(MOTION_PARAMS)
     /\ Len(X) = Len(MOTION_PARAMS)
     /\ \A i \in DOMAIN MOTION_PARAMS : Return(learners[i]) = Fit(X[i], Y[i])
====
